---- MODULE Spec2Model ----
(***************************************************************************)
(* ptyme: a terminal <-> pseudoterminal bridge (src/src/main.rs).          *)
(*                                                                         *)
(* The program is one sequential process (main -> new_pty -> term_set_raw  *)
(* -> proxy_term -> restore) whose position is pc.  Every system call it   *)
(* makes is one step; each call either succeeds or fails, the choice being *)
(* the environment's.  The environment also delivers bytes at standard     *)
(* input and at the PTY master and closes either stream.                   *)
(***************************************************************************)
EXTENDS Integers, Sequences, FiniteSets, TLC

(* ------------------------------ bounds --------------------------------- *)

\* Bytes the environment delivers per direction in one run.
MaxBytes == 3

\* Capacity of the read buffers (std's BufReader / Stdin buffer), scaled down.
BufCap == 2

\* Bytes the PTY's input queue holds before a write to the master has to
\* wait for the slave side to read, scaled down.
MasterCap == 1

(* --------------------------- program constants ------------------------- *)

\* main.rs:14-15
STDIN == 0
PTY_MASTER == 1

Tokens == {STDIN, PTY_MASTER}

\* NL is the line feed that std's line-buffered stdout acts on; "x" is any
\* other byte.
NL == "nl"

\* Terminal attributes are sets of mode flags.  ICANON, ECHO and ISIG are
\* cleared by cfmakeraw; IXOFF is a flag cfmakeraw leaves alone.
RawCleared == {"ICANON", "ECHO", "ISIG"}
NoSnapshot == {"UNSET"}
InitAttrs == {{"ICANON", "ECHO", "ISIG"}, {"ICANON", "ECHO", "ISIG", "IXOFF"}}

\* File descriptors of the PTY master handles; NoFd is "no handle".
NoFd == "none"
StdinFd == "fd0"
MasterFd == "fd_master"
DupFd == "fd_dup"
Fds == {MasterFd, DupFd}
Handles == {"pty_master", "fpty_master"}

\* The status line println! writes, as one element of the output stream.
StatusLine == "Opened new PTY device"

VARIABLES
    pc,          \* position of the program
    term,        \* attributes of the controlling terminal (kernel state)
    saved,       \* main's `saved` snapshot
    termios,     \* main's `termios` working copy
    exitStatus,  \* "none" while running, then "ok" or "error"
    err,         \* the operation whose error main returned, or "none"
    mainLog,     \* history: top-level steps begun / succeeded / failed
    ptyLog,      \* history: new_pty's calls and their outcomes
    restoreArgs, \* history: the values passed to the restoring tcsetattr
    havePair,    \* new_pty returned Ok(PtyPair)
    hfd,         \* handle -> descriptor it owns (NoFd when none)
    closes,      \* descriptor -> number of times it has been closed
    registry,    \* the multiplexer's registrations: <<token, descriptor>>
    loop,        \* proxy loop: "not_started", "running", "peer_closed", "error"
    events,      \* the batch the last poll returned
    evIdx,       \* index in events of the notification being handled
    rbuf,        \* token -> unconsumed content of its reader's buffer
    wpos,        \* bytes of the current buffer already written by write_all
    edge,        \* token -> readiness changed since the last poll reported
    chan,        \* token -> "open", "hup" (read side closed) or "eof"
    pending,     \* token -> bytes readable in the kernel, not yet read
    hist,        \* token -> every byte that became readable, in order
    masterRoom,  \* room left in the PTY's input queue (master -> slave)
    nread,       \* token -> number of bytes the program has read
    masterOut,   \* bytes written to the PTY master
    stdoutBuf,   \* bytes held in stdout's user-space buffer
    stdoutDev    \* what has reached standard output

mainVars == <<pc, term, saved, termios, exitStatus, err, mainLog, restoreArgs>>
ptyVars  == <<ptyLog, havePair, hfd, closes, registry>>
loopVars == <<loop, events, evIdx, rbuf, wpos, nread>>
envVars  == <<edge, chan, pending, hist, masterRoom>>
outVars  == <<masterOut, stdoutBuf, stdoutDev>>
vars == <<mainVars, ptyVars, loopVars, envVars, outVars>>

(* ------------------------------ helpers -------------------------------- *)

Min(a, b) == IF a < b THEN a ELSE b

Prefix(s, n) == SubSeq(s, 1, n)

Drop(s, n) == SubSeq(s, n + 1, Len(s))

\* Index of the last line feed of s, 0 when it has none.
LastNL(s) ==
    LET idx == {i \in 1..Len(s) : s[i] = NL}
    IN  IF idx = {} THEN 0 ELSE CHOOSE i \in idx : \A j \in idx : j <= i

(* --------------------- Terminal Mode Controller ------------------------ *)

\* termios::cfmakeraw
cfmakeraw(t) == t \ RawCleared

IsRaw(t) == t \cap RawCleared = {}

\* term_set_raw(fd, &mut termios): the copy is made raw in place, then
\* applied; `ok` is tcsetattr's outcome.  Result: the copy and the terminal.
term_set_raw(tm, cur, ok) ==
    [termios |-> cfmakeraw(tm),
     term    |-> IF ok THEN cfmakeraw(tm) ELSE cur]

\* Variant: term_set_raw given the snapshot itself instead of the clone.
SnapshotClobbered(sv, tm) == cfmakeraw(tm)

\* What main's `saved` holds after term_set_raw(stdin, &mut termios) ran on
\* the clone: the clone is a separate value, so `saved` is what it was.
SavedAfterSetRaw(sv, tm) == sv

\* Variant: the restore is given the working copy instead of the snapshot.
RestoreArgWorkingCopy(sv, tm) == tm

\* The value main passes to the restoring tcsetattr: &saved.
RestoreArg(sv, tm) == sv

(* ------------------------------ main ----------------------------------- *)

\* Variant: raw mode switched on before the PTY is allocated.
MainNextRawFirst(step) ==
    CASE step = "tcgetattr" -> "set_raw"
      [] step = "set_raw"   -> "openpt"
      [] step = "new_pty"   -> "println"
      [] step = "println"   -> "poll_new"
      [] step = "proxy"     -> "restore"
      [] step = "restore"   -> "exit"

\* Variant: the proxy loop is entered again after it returned.
MainNextLoopAgain(step) ==
    CASE step = "tcgetattr" -> "openpt"
      [] step = "new_pty"   -> "println"
      [] step = "println"   -> "set_raw"
      [] step = "set_raw"   -> "poll_new"
      [] step = "proxy"     -> "poll_new"
      [] step = "restore"   -> "exit"

\* Variant: the status line is left out.
MainNextSkipStatus(step) ==
    CASE step = "tcgetattr" -> "openpt"
      [] step = "new_pty"   -> "set_raw"
      [] step = "println"   -> "set_raw"
      [] step = "set_raw"   -> "poll_new"
      [] step = "proxy"     -> "restore"
      [] step = "restore"   -> "exit"

\* main's straight-line order: where control goes when `step` succeeded.
MainNext(step) ==
    CASE step = "tcgetattr" -> "openpt"
      [] step = "new_pty"   -> "println"
      [] step = "println"   -> "set_raw"
      [] step = "set_raw"   -> "poll_new"
      [] step = "proxy"     -> "restore"
      [] step = "restore"   -> "exit"

\* The `?` operator in main: where control goes when `step` failed.
MainOnError(step) == "exit"

\* Dropping every handle still owned closes its descriptor once.
ClosesAfterDrop ==
    [f \in Fds |-> closes[f] + Cardinality({h \in Handles : hfd[h] = f})]

DropHandles ==
    /\ closes' = ClosesAfterDrop
    /\ hfd' = [h \in Handles |-> NoFd]

\* main returns Err(e): the process exits with a non-zero status.
ExitError(e) ==
    /\ exitStatus' = "error"
    /\ err' = e

Init ==
    /\ pc = "tcgetattr"
    /\ term \in InitAttrs
    /\ saved = NoSnapshot
    /\ termios = NoSnapshot
    /\ exitStatus = "none"
    /\ err = "none"
    /\ mainLog = <<>>
    /\ ptyLog = <<>>
    /\ restoreArgs = <<>>
    /\ havePair = FALSE
    /\ hfd = [h \in Handles |-> NoFd]
    /\ closes = [f \in Fds |-> 0]
    /\ registry = {}
    /\ loop = "not_started"
    /\ events = <<>>
    /\ evIdx = 0
    /\ rbuf = [t \in Tokens |-> <<>>]
    /\ wpos = 0
    /\ edge = [t \in Tokens |-> FALSE]
    /\ chan = [t \in Tokens |-> "open"]
    /\ pending = [t \in Tokens |-> <<>>]
    /\ hist = [t \in Tokens |-> <<>>]
    /\ masterRoom = MasterCap
    /\ nread = [t \in Tokens |-> 0]
    /\ masterOut = <<>>
    /\ stdoutBuf = <<>>
    /\ stdoutDev = <<>>

\* main.rs:110-111  let saved = tcgetattr(stdin)?; let mut termios = saved.clone();
tcgetattr_ok ==
    /\ pc = "tcgetattr"
    /\ saved' = term
    /\ termios' = term
    /\ mainLog' = mainLog \o <<<<"capture", "begin">>, <<"capture", "ok">>>>
    /\ pc' = MainNext("tcgetattr")
    /\ UNCHANGED <<term, exitStatus, err, restoreArgs>>
    /\ UNCHANGED <<ptyVars, loopVars, envVars, outVars>>

tcgetattr_err ==
    /\ pc = "tcgetattr"
    /\ mainLog' = mainLog \o <<<<"capture", "begin">>, <<"capture", "err">>>>
    /\ pc' = MainOnError("tcgetattr")
    /\ ExitError("tcgetattr")
    /\ UNCHANGED <<term, saved, termios, restoreArgs>>
    /\ UNCHANGED <<ptyVars, loopVars, envVars, outVars>>

(* --------------------------- PTY Allocator ----------------------------- *)

PtySteps == {"openpt", "grantpt", "unlockpt", "ptsname"}

\* new_pty's order of calls: what follows `step` when it succeeded.
NewPtyNext(step) ==
    CASE step = "openpt"   -> "grantpt"
      [] step = "grantpt"  -> "unlockpt"
      [] step = "unlockpt" -> "ptsname"
      [] step = "ptsname"  -> "return"

\* Variant: the result of grantpt is ignored.
NewPtyOnErrorIgnoreGrant(step) ==
    IF step = "grantpt" THEN "unlockpt" ELSE "return_err"

\* The `?` after each call of new_pty: a failed step returns the error.
NewPtyOnError(step) == "return_err"

\* The allocation begins with the first call of new_pty.
AllocBegin(step) ==
    IF ptyLog = <<>> THEN <<<<"allocate", "begin">>>> ELSE <<>>

\* main.rs:94-103, one call of new_pty succeeding.
new_pty_ok ==
    \E step \in PtySteps :
        /\ pc = step
        /\ ptyLog' = Append(ptyLog, <<step, "ok">>)
        /\ hfd' = IF step = "openpt"
                  THEN [hfd EXCEPT !["pty_master"] = MasterFd]
                  ELSE hfd
        /\ IF NewPtyNext(step) = "return"
           THEN /\ havePair' = TRUE
                /\ mainLog' = mainLog \o AllocBegin(step) \o <<<<"allocate", "ok">>>>
                /\ pc' = MainNext("new_pty")
           ELSE /\ havePair' = havePair
                /\ mainLog' = mainLog \o AllocBegin(step)
                /\ pc' = NewPtyNext(step)
        /\ UNCHANGED <<term, saved, termios, exitStatus, err, restoreArgs>>
        /\ UNCHANGED <<closes, registry>>
        /\ UNCHANGED <<loopVars, envVars, outVars>>

\* One call of new_pty failing: the master, if open, is dropped and main's
\* `?` (main.rs:114) returns the error.
new_pty_err ==
    \E step \in PtySteps :
        /\ pc = step
        /\ ptyLog' = Append(ptyLog, <<step, "err">>)
        /\ IF NewPtyOnError(step) = "return_err"
           THEN /\ mainLog' = mainLog \o AllocBegin(step) \o <<<<"allocate", "err">>>>
                /\ DropHandles
                /\ pc' = MainOnError("new_pty")
                /\ ExitError(step)
           ELSE /\ mainLog' = mainLog \o AllocBegin(step)
                /\ pc' = NewPtyOnError(step)
                /\ UNCHANGED <<hfd, closes, exitStatus, err>>
        /\ UNCHANGED <<term, saved, termios, restoreArgs>>
        /\ UNCHANGED <<havePair, registry>>
        /\ UNCHANGED <<loopVars, envVars, outVars>>

\* main.rs:116  println!: the line ends in a line feed, so stdout's line
\* buffering hands it to the device at once.
println_ok ==
    /\ pc = "println"
    /\ stdoutDev' = (stdoutDev \o stdoutBuf) \o <<StatusLine>>
    /\ stdoutBuf' = <<>>
    /\ pc' = MainNext("println")
    /\ UNCHANGED <<term, saved, termios, exitStatus, err, mainLog, restoreArgs>>
    /\ UNCHANGED <<masterOut>>
    /\ UNCHANGED <<ptyVars, loopVars, envVars>>

\* println! panics when standard output cannot be written.
println_panic ==
    /\ pc = "println"
    /\ pc' = "exit"
    /\ ExitError("println")
    /\ DropHandles
    /\ UNCHANGED <<term, saved, termios, mainLog, restoreArgs>>
    /\ UNCHANGED <<ptyLog, havePair, registry>>
    /\ UNCHANGED <<loopVars, envVars, outVars>>

\* main.rs:119  term_set_raw(stdin, &mut termios)?
set_raw_ok ==
    /\ pc = "set_raw"
    /\ LET r == term_set_raw(termios, term, TRUE)
       IN  /\ termios' = r.termios
           /\ term' = r.term
    /\ saved' = SavedAfterSetRaw(saved, termios)
    /\ mainLog' = mainLog \o <<<<"raw", "begin">>, <<"raw", "ok">>>>
    /\ pc' = MainNext("set_raw")
    /\ UNCHANGED <<exitStatus, err, restoreArgs>>
    /\ UNCHANGED <<ptyVars, loopVars, envVars, outVars>>

set_raw_err ==
    /\ pc = "set_raw"
    /\ LET r == term_set_raw(termios, term, FALSE)
       IN  /\ termios' = r.termios
           /\ term' = r.term
    /\ saved' = SavedAfterSetRaw(saved, termios)
    /\ mainLog' = mainLog \o <<<<"raw", "begin">>, <<"raw", "err">>>>
    /\ pc' = MainOnError("set_raw")
    /\ ExitError("set_raw")
    /\ DropHandles
    /\ UNCHANGED <<restoreArgs>>
    /\ UNCHANGED <<ptyLog, havePair, registry>>
    /\ UNCHANGED <<loopVars, envVars, outVars>>

\* main.rs:125  tcsetattr(stdin, TCSANOW, &saved)?
restore_ok ==
    /\ pc = "restore"
    /\ restoreArgs' = Append(restoreArgs, RestoreArg(saved, termios))
    /\ term' = RestoreArg(saved, termios)
    /\ mainLog' = mainLog \o <<<<"restore", "begin">>, <<"restore", "ok">>>>
    /\ pc' = MainNext("restore")
    /\ exitStatus' = "ok"
    /\ DropHandles
    /\ UNCHANGED <<saved, termios, err>>
    /\ UNCHANGED <<ptyLog, havePair, registry>>
    /\ UNCHANGED <<loopVars, envVars, outVars>>

restore_err ==
    /\ pc = "restore"
    /\ restoreArgs' = Append(restoreArgs, RestoreArg(saved, termios))
    /\ mainLog' = mainLog \o <<<<"restore", "begin">>, <<"restore", "err">>>>
    /\ pc' = MainOnError("restore")
    /\ ExitError("restore")
    /\ DropHandles
    /\ UNCHANGED <<term, saved, termios>>
    /\ UNCHANGED <<ptyLog, havePair, registry>>
    /\ UNCHANGED <<loopVars, envVars, outVars>>

(* --------------------------- I/O Proxy Loop ---------------------------- *)

\* proxy_term returns Err(e): its handles are dropped and main's `?`
\* (main.rs:122) returns the error.
ProxyError(e) ==
    /\ loop' = "error"
    /\ mainLog' = mainLog \o
          (IF pc = "poll_new" THEN <<<<"proxy", "begin">>>> ELSE <<>>) \o
          <<<<"proxy", "err">>>>
    /\ pc' = MainOnError("proxy")
    /\ ExitError(e)
    /\ DropHandles

\* Variant: a failed read is noted and tried again.
OnIoErrorRetryRead(op) == IF op = "fill_buf" THEN "retry" ELSE "return_err"

\* The `?` after poll (main.rs:69) and after the calls of write_buffer_to
\* (main.rs:32-34, 78, 81): the error is returned, nothing is tried again.
OnIoError(op) == "return_err"

\* The call `op` of the running loop failed.
LoopFail(op) ==
    IF OnIoError(op) = "return_err"
    THEN ProxyError(op)
    ELSE /\ err' = op
         /\ UNCHANGED <<pc, loop, mainLog, exitStatus, hfd, closes>>

\* Variant: the loop wraps the allocator's descriptor itself.
dupSameFd(fd) == fd

\* unistd::dup: a new descriptor for the same open file.
dup(fd) == DupFd

SetupSteps == {"poll_new", "dup", "register_stdin", "register_master"}

\* Variant: standard input is never registered.
SetupNextSkipStdin(step) ==
    CASE step = "poll_new"        -> "dup"
      [] step = "dup"             -> "register_master"
      [] step = "register_stdin"  -> "register_master"
      [] step = "register_master" -> "poll"

SetupNext(step) ==
    CASE step = "poll_new"        -> "dup"
      [] step = "dup"             -> "register_stdin"
      [] step = "register_stdin"  -> "register_master"
      [] step = "register_master" -> "poll"

\* main.rs:43-58  Poll::new, dup, the two registrations.
setup_ok ==
    \E step \in SetupSteps :
        /\ pc = step
        /\ pc' = SetupNext(step)
        /\ loop' = IF SetupNext(step) = "poll" THEN "running" ELSE "setup"
        /\ hfd' = IF step = "dup"
                  THEN [hfd EXCEPT !["fpty_master"] = dup(hfd["pty_master"])]
                  ELSE hfd
        /\ registry' =
              CASE step = "register_stdin"  -> registry \cup {<<STDIN, StdinFd>>}
                [] step = "register_master" ->
                       registry \cup {<<PTY_MASTER, hfd["fpty_master"]>>}
                [] OTHER -> registry
        /\ mainLog' = mainLog \o
              (IF step = "poll_new" THEN <<<<"proxy", "begin">>>> ELSE <<>>)
        /\ UNCHANGED <<term, saved, termios, exitStatus, err, restoreArgs>>
        /\ UNCHANGED <<ptyLog, havePair, closes>>
        /\ UNCHANGED <<events, evIdx, rbuf, wpos, nread>>
        /\ UNCHANGED <<envVars, outVars>>

setup_err ==
    \E step \in SetupSteps :
        /\ pc = step
        /\ ProxyError(step)
        /\ UNCHANGED <<term, saved, termios, restoreArgs>>
        /\ UNCHANGED <<ptyLog, havePair, registry>>
        /\ UNCHANGED <<events, evIdx, rbuf, wpos, nread>>
        /\ UNCHANGED <<envVars, outVars>>

Registered == {r[1] : r \in registry}

\* A registered handle is reported when its readiness changed since the last
\* report (edge-triggered) and it is readable or closed now.
Ready ==
    {t \in Registered :
        edge[t] /\ (pending[t] # <<>> \/ chan[t] # "open")}

\* The notification for token t: mio's Event with its token and whether the
\* kernel flagged the read side closed.
EventOf(t) == [token |-> t, read_closed |-> (chan[t] = "hup")]

\* The batches poll may return: the ready handles, in either order.
Batches ==
    {b \in UNION {[1..n -> Ready] : n \in {Cardinality(Ready)}} :
        \A i, j \in DOMAIN b : i # j => b[i] # b[j]}

\* main.rs:69  poll.poll(&mut events, None)? returning notifications.
poll_ok ==
    /\ pc = "poll"
    /\ Ready # {}
    /\ \E b \in Batches :
          events' = [i \in DOMAIN b |-> EventOf(b[i])]
    /\ evIdx' = 1
    /\ edge' = [t \in Tokens |-> FALSE]
    /\ pc' = "event"
    /\ UNCHANGED <<term, saved, termios, exitStatus, err, mainLog, restoreArgs>>
    /\ UNCHANGED <<loop, rbuf, wpos, nread>>
    /\ UNCHANGED <<chan, pending, hist, masterRoom>>
    /\ UNCHANGED <<ptyVars, outVars>>

poll_err ==
    /\ pc = "poll"
    /\ LoopFail("poll")
    /\ UNCHANGED <<term, saved, termios, restoreArgs>>
    /\ UNCHANGED <<ptyLog, havePair, registry>>
    /\ UNCHANGED <<events, evIdx, rbuf, wpos, nread>>
    /\ UNCHANGED <<envVars, outVars>>

\* Variant: standard input is served before read-closed is tested.
DispatchTokenFirst(ev) ==
    CASE ev.token = STDIN -> "stdin"
      [] ev.read_closed -> "return_ok"
      [] ev.token = PTY_MASTER -> "master"
      [] OTHER -> "unreachable"

\* Variant: read-closed is never tested.
DispatchNoHangup(ev) ==
    CASE ev.token = STDIN -> "stdin"
      [] ev.token = PTY_MASTER -> "master"
      [] OTHER -> "unreachable"

\* main.rs:73-85  what the loop body does with one notification.
Dispatch(ev) ==
    CASE ev.read_closed -> "return_ok"
      [] ev.token = STDIN -> "stdin"
      [] ev.token = PTY_MASTER -> "master"
      [] OTHER -> "unreachable"

HaveEvent == pc = "event" /\ evIdx <= Len(events)

\* main.rs:72  the batch is exhausted: back to poll.
event_done ==
    /\ pc = "event"
    /\ evIdx > Len(events)
    /\ pc' = "poll"
    /\ events' = <<>>
    /\ evIdx' = 0
    /\ UNCHANGED <<term, saved, termios, exitStatus, err, mainLog, restoreArgs>>
    /\ UNCHANGED <<loop, rbuf, wpos, nread>>
    /\ UNCHANGED <<ptyVars, envVars, outVars>>

\* main.rs:73-75  if event.is_read_closed() { return Ok(()) }
event_read_closed ==
    /\ HaveEvent
    /\ Dispatch(events[evIdx]) = "return_ok"
    /\ loop' = "peer_closed"
    /\ mainLog' = Append(mainLog, <<"proxy", "ok">>)
    /\ DropHandles
    /\ pc' = MainNext("proxy")
    /\ UNCHANGED <<term, saved, termios, exitStatus, err, restoreArgs>>
    /\ UNCHANGED <<ptyLog, havePair, registry>>
    /\ UNCHANGED <<events, evIdx, rbuf, wpos, nread>>
    /\ UNCHANGED <<envVars, outVars>>

\* main.rs:76-85  match event.token(): a known token enters write_buffer_to,
\* any other reaches unreachable!() and the process aborts.
event_dispatch ==
    /\ HaveEvent
    /\ Dispatch(events[evIdx]) # "return_ok"
    /\ IF Dispatch(events[evIdx]) = "unreachable"
       THEN /\ loop' = "error"
            /\ pc' = "exit"
            /\ ExitError("unreachable")
            /\ DropHandles
       ELSE /\ pc' = "fill_buf"
            /\ UNCHANGED <<loop, exitStatus, err, hfd, closes>>
    /\ UNCHANGED <<term, saved, termios, mainLog, restoreArgs>>
    /\ UNCHANGED <<ptyLog, havePair, registry>>
    /\ UNCHANGED <<events, evIdx, rbuf, wpos, nread>>
    /\ UNCHANGED <<envVars, outVars>>

(* ------------------------- write_buffer_to ----------------------------- *)

\* The branch of the match the current notification took.
Branch == Dispatch(events[evIdx])

\* The reader handed to write_buffer_to: stdin_hdl or fpty_master.
Src == IF Branch = "stdin" THEN STDIN ELSE PTY_MASTER

\* One read(2) into an empty buffer takes what is there, up to the capacity.
ReadLen(avail) == Min(BufCap, avail)

\* A read on a blocking descriptor returns when bytes are there or the
\* stream is at end of file; otherwise the call does not return yet.
CanRead(t) ==
    \/ pending[t] # <<>>
    \/ chan[t] = "eof"
    \/ chan[t] = "hup" /\ t = STDIN

\* main.rs:32  let buf = rdr.fill_buf()?  A non-empty buffer is returned as
\* it is; an empty one is refilled by one read.
fill_buf_ok ==
    /\ pc = "fill_buf"
    /\ IF rbuf[Src] # <<>>
       THEN UNCHANGED <<rbuf, pending, nread>>
       ELSE /\ CanRead(Src)
            /\ LET n == ReadLen(Len(pending[Src]))
               IN  /\ rbuf' = [rbuf EXCEPT ![Src] = Prefix(pending[Src], n)]
                   /\ pending' = [pending EXCEPT ![Src] = Drop(pending[Src], n)]
                   /\ nread' = [nread EXCEPT ![Src] = @ + n]
    /\ wpos' = 0
    /\ pc' = "write_all"
    /\ UNCHANGED <<term, saved, termios, exitStatus, err, mainLog, restoreArgs>>
    /\ UNCHANGED <<loop, events, evIdx>>
    /\ UNCHANGED <<edge, chan, hist, masterRoom>>
    /\ UNCHANGED <<ptyVars, outVars>>

fill_buf_err ==
    /\ pc = "fill_buf"
    /\ rbuf[Src] = <<>>
    /\ LoopFail("fill_buf")
    /\ UNCHANGED <<term, saved, termios, restoreArgs>>
    /\ UNCHANGED <<ptyLog, havePair, registry>>
    /\ UNCHANGED <<events, evIdx, rbuf, wpos, nread>>
    /\ UNCHANGED <<envVars, outVars>>

\* Variant: each write(2) loses the first byte it was given.
WriteChunkSkipFirst(buf, from, k) == SubSeq(buf, from + 2, from + k)

\* The bytes one write(2) of k bytes takes from buf after `from` written ones.
WriteChunk(buf, from, k) == SubSeq(buf, from + 1, from + k)

\* The master was opened with O_RDWR only (main.rs:94), so the descriptor is
\* blocking: one write(2) takes at most the room left in the PTY's input
\* queue and sleeps while there is none.  Once the slave side is gone nothing
\* waits for it any more and the write takes all it is given.
MasterAccepts(left) ==
    IF chan[PTY_MASTER] = "open" THEN Min(left, masterRoom) ELSE left

RoomAfter(k) ==
    IF chan[PTY_MASTER] = "open" THEN masterRoom - k ELSE masterRoom

\* main.rs:33  f.write_all(buf)? on the PTY master (main.rs:78): write(2) is
\* repeated until the whole buffer is written; each call may write only part.
\* An empty buffer needs no call.
write_master ==
    /\ pc = "write_all"
    /\ Branch = "stdin"
    /\ LET buf == rbuf[Src]
       IN  IF wpos >= Len(buf)
           THEN /\ pc' = "flush"
                /\ UNCHANGED <<wpos, masterOut, masterRoom>>
           ELSE \E k \in 1..MasterAccepts(Len(buf) - wpos) :
                   /\ masterOut' = masterOut \o WriteChunk(buf, wpos, k)
                   /\ masterRoom' = RoomAfter(k)
                   /\ wpos' = wpos + k
                   /\ pc' = IF wpos + k = Len(buf) THEN "flush" ELSE "write_all"
    /\ UNCHANGED <<term, saved, termios, exitStatus, err, mainLog, restoreArgs>>
    /\ UNCHANGED <<loop, events, evIdx, rbuf, nread>>
    /\ UNCHANGED <<stdoutBuf, stdoutDev>>
    /\ UNCHANGED <<edge, chan, pending, hist>>
    /\ UNCHANGED ptyVars

write_master_err ==
    /\ pc = "write_all"
    /\ Branch = "stdin"
    /\ wpos < Len(rbuf[Src])
    /\ LoopFail("write_all")
    /\ UNCHANGED <<term, saved, termios, restoreArgs>>
    /\ UNCHANGED <<ptyLog, havePair, registry>>
    /\ UNCHANGED <<events, evIdx, rbuf, wpos, nread>>
    /\ UNCHANGED <<envVars, outVars>>

\* What write_all on std's line-buffered stdout sends to the device: with a
\* line feed in buf, everything buffered plus buf up to its last line feed.
LineOut(held, buf) ==
    IF LastNL(buf) = 0 THEN <<>> ELSE held \o Prefix(buf, LastNL(buf))

\* ... and what it keeps in the buffer afterwards.
LineHeld(held, buf) ==
    IF LastNL(buf) = 0 THEN held \o buf ELSE Drop(buf, LastNL(buf))

\* main.rs:33  f.write_all(buf)? on stdout_hdl (main.rs:81).
write_stdout ==
    /\ pc = "write_all"
    /\ Branch = "master"
    /\ stdoutDev' = stdoutDev \o LineOut(stdoutBuf, rbuf[Src])
    /\ stdoutBuf' = LineHeld(stdoutBuf, rbuf[Src])
    /\ wpos' = Len(rbuf[Src])
    /\ pc' = "flush"
    /\ UNCHANGED <<term, saved, termios, exitStatus, err, mainLog, restoreArgs>>
    /\ UNCHANGED <<loop, events, evIdx, rbuf, nread>>
    /\ UNCHANGED <<masterOut>>
    /\ UNCHANGED <<ptyVars, envVars>>

\* The device write fails after j of the bytes due were written.
write_stdout_err ==
    /\ pc = "write_all"
    /\ Branch = "master"
    /\ LET due == LineOut(stdoutBuf, rbuf[Src])
       IN  /\ due # <<>>
           /\ \E j \in 0..(Len(due) - 1) :
                 stdoutDev' = stdoutDev \o Prefix(due, j)
    /\ LoopFail("write_all")
    /\ UNCHANGED <<term, saved, termios, restoreArgs>>
    /\ UNCHANGED <<ptyLog, havePair, registry>>
    /\ UNCHANGED <<events, evIdx, rbuf, wpos, nread>>
    /\ UNCHANGED <<masterOut, stdoutBuf>>
    /\ UNCHANGED <<envVars>>

\* Variant: flush writes nothing out.
FlushNothing(held) == <<>>

\* What flush sends to the device: everything stdout still holds.
FlushOut(held) == held

\* main.rs:34  f.flush()?  File::flush does nothing; stdout's flush writes
\* out what the buffer holds.
flush_ok ==
    /\ pc = "flush"
    /\ IF Branch = "master"
       THEN /\ stdoutDev' = stdoutDev \o FlushOut(stdoutBuf)
            /\ stdoutBuf' = Drop(stdoutBuf, Len(FlushOut(stdoutBuf)))
       ELSE UNCHANGED <<stdoutDev, stdoutBuf>>
    /\ pc' = "consume"
    /\ UNCHANGED <<term, saved, termios, exitStatus, err, mainLog, restoreArgs>>
    /\ UNCHANGED <<loop, events, evIdx, rbuf, wpos, nread>>
    /\ UNCHANGED <<masterOut>>
    /\ UNCHANGED <<ptyVars, envVars>>

flush_err ==
    /\ pc = "flush"
    /\ Branch = "master"
    /\ stdoutBuf # <<>>
    /\ \E j \in 0..(Len(stdoutBuf) - 1) :
          /\ stdoutDev' = stdoutDev \o Prefix(stdoutBuf, j)
          /\ stdoutBuf' = Drop(stdoutBuf, j)
    /\ LoopFail("flush")
    /\ UNCHANGED <<term, saved, termios, restoreArgs>>
    /\ UNCHANGED <<ptyLog, havePair, registry>>
    /\ UNCHANGED <<events, evIdx, rbuf, wpos, nread>>
    /\ UNCHANGED <<masterOut>>
    /\ UNCHANGED <<envVars>>

\* Variant: consume is left out.
consumeNothing(buf, len) == buf

\* BufRead::consume(len): the first len bytes of the buffer are done with.
consume(buf, len) == Drop(buf, len)

\* main.rs:35-38  let len = buf.len(); rdr.consume(len); Ok(())  and the
\* for loop's step to the next notification.
consume_ok ==
    /\ pc = "consume"
    /\ rbuf' = [rbuf EXCEPT ![Src] = consume(rbuf[Src], Len(rbuf[Src]))]
    /\ wpos' = 0
    /\ evIdx' = evIdx + 1
    /\ pc' = "event"
    /\ UNCHANGED <<term, saved, termios, exitStatus, err, mainLog, restoreArgs>>
    /\ UNCHANGED <<loop, events, nread>>
    /\ UNCHANGED <<ptyVars, envVars, outVars>>

(* ----------------------------- environment ----------------------------- *)

Alive == pc # "exit" /\ loop \notin {"peer_closed", "error"}

\* The loop relays standard input without looking at the bytes, so one
\* input stream stands for all: its i-th byte differs from its neighbours.
StdinByte(i) == IF i % 2 = 1 THEN "x" ELSE NL

\* A byte becomes readable at standard input.
stdin_arrive ==
    /\ Alive
    /\ chan[STDIN] = "open"
    /\ Len(hist[STDIN]) < MaxBytes
    /\ LET b == StdinByte(Len(hist[STDIN]) + 1)
       IN  /\ pending' = [pending EXCEPT ![STDIN] = Append(@, b)]
           /\ hist' = [hist EXCEPT ![STDIN] = Append(@, b)]
    /\ edge' = [edge EXCEPT ![STDIN] = TRUE]
    /\ UNCHANGED <<chan, masterRoom>>
    /\ UNCHANGED <<mainVars, ptyVars, loopVars, outVars>>

\* Of the bytes from the PTY master only the line feeds matter (to stdout's
\* line buffering); this stream puts a line feed first, last and in the
\* middle of the buffers the reads can return.
PtyByte(i) == IF i % 2 = 1 THEN NL ELSE "x"

\* The slave side writes a byte: it becomes readable at the PTY master.
pty_arrive ==
    /\ Alive
    /\ havePair
    /\ chan[PTY_MASTER] = "open"
    /\ Len(hist[PTY_MASTER]) < MaxBytes
    /\ LET b == PtyByte(Len(hist[PTY_MASTER]) + 1)
       IN  /\ pending' = [pending EXCEPT ![PTY_MASTER] = Append(@, b)]
           /\ hist' = [hist EXCEPT ![PTY_MASTER] = Append(@, b)]
    /\ edge' = [edge EXCEPT ![PTY_MASTER] = TRUE]
    /\ UNCHANGED <<chan, masterRoom>>
    /\ UNCHANGED <<mainVars, ptyVars, loopVars, outVars>>

\* Standard input closes: a hang-up the multiplexer flags as read-closed, or
\* an end of file it reports as plain readability (a zero-length read).
stdin_close ==
    /\ Alive
    /\ chan[STDIN] = "open"
    /\ \E how \in {"hup", "eof"} : chan' = [chan EXCEPT ![STDIN] = how]
    /\ edge' = [edge EXCEPT ![STDIN] = TRUE]
    /\ UNCHANGED <<pending, hist, masterRoom>>
    /\ UNCHANGED <<mainVars, ptyVars, loopVars, outVars>>

\* The slave side closes: the master's multiplexer entry reports a hang-up.
pty_close ==
    /\ Alive
    /\ havePair
    /\ chan[PTY_MASTER] = "open"
    /\ chan' = [chan EXCEPT ![PTY_MASTER] = "hup"]
    /\ edge' = [edge EXCEPT ![PTY_MASTER] = TRUE]
    /\ UNCHANGED <<pending, hist, masterRoom>>
    /\ UNCHANGED <<mainVars, ptyVars, loopVars, outVars>>

\* The slave side reads what is queued for it: the queue has room again.
\* Only a write to the master looks at the room, so a read by the slave at
\* any earlier moment is the same to the program as one right before that
\* write; the model places the slave's reads there.
slave_read ==
    /\ Alive
    /\ havePair
    /\ chan[PTY_MASTER] = "open"
    /\ pc = "write_all"
    /\ Branch = "stdin"
    /\ masterRoom < MasterCap
    /\ masterRoom' = MasterCap
    /\ UNCHANGED <<edge, chan, pending, hist>>
    /\ UNCHANGED <<mainVars, ptyVars, loopVars, outVars>>

(* --------------------------- specification ----------------------------- *)

\* The steps of the program in which the call it makes succeeds.
Progress ==
    \/ tcgetattr_ok
    \/ new_pty_ok
    \/ println_ok
    \/ set_raw_ok
    \/ setup_ok
    \/ poll_ok
    \/ event_done
    \/ event_read_closed
    \/ event_dispatch
    \/ fill_buf_ok
    \/ write_master
    \/ write_stdout
    \/ flush_ok
    \/ consume_ok
    \/ restore_ok

\* The steps in which the call fails.
Failure ==
    \/ tcgetattr_err
    \/ new_pty_err
    \/ println_panic
    \/ set_raw_err
    \/ setup_err
    \/ poll_err
    \/ fill_buf_err
    \/ write_master_err
    \/ write_stdout_err
    \/ flush_err
    \/ restore_err

Environment ==
    \/ stdin_arrive
    \/ pty_arrive
    \/ stdin_close
    \/ pty_close
    \/ slave_read

Next == Progress \/ Failure \/ Environment

Spec == Init /\ [][Next]_vars

\* The process is scheduled: a call that can return successfully is not
\* postponed for ever.  A failure is never forced.
FairSpec == Spec /\ WF_vars(Progress)

(* ------------------------------- claims -------------------------------- *)

Captured == saved # NoSnapshot

Terminated == loop \in {"peer_closed", "error"}

LoopOps == {"poll", "fill_buf", "write_all", "flush"}

InBatch == evIdx \in 1..Len(events)

IsByte(e) == e # StatusLine

IsPrefix(s, t) == Len(s) <= Len(t) /\ s = SubSeq(t, 1, Len(s))

\* The relayed bytes that reached standard output (the status line aside).
RelayedOut == SelectSeq(stdoutDev, IsByte)

\* The bytes the loop read from standard input and has not yet written.
StdinUnwritten ==
    IF InBatch /\ Branch = "stdin" THEN Drop(rbuf[STDIN], wpos) ELSE rbuf[STDIN]

\* C1: once the attributes are captured, every exit of the program is
\* preceded by exactly one restore to the captured snapshot, and the terminal
\* is then not left in raw mode.
C1_EveryExitRestores ==
    (pc = "exit" /\ Captured) =>
        /\ Len(restoreArgs) = 1
        /\ restoreArgs[1] = saved
        /\ ~IsRaw(term)

\* C2: the bytes written to the PTY master are always a prefix of the bytes
\* that became readable at standard input; the bytes read from standard input
\* are exactly those written plus those still waiting in the buffer; and
\* whenever the loop is between notifications, or has returned normally,
\* every byte read has been written.
C2_StdinRelayed ==
    /\ IsPrefix(masterOut, hist[STDIN])
    /\ masterOut \o StdinUnwritten = Prefix(hist[STDIN], nread[STDIN])
    /\ (pc \in {"poll", "event"} \/ loop = "peer_closed") =>
          masterOut = Prefix(hist[STDIN], nread[STDIN])

\* C2 witness: the loop is waiting again after relaying two different bytes
\* from standard input to the PTY master.
C2_Witness ==
    /\ pc = "poll"
    /\ loop = "running"
    /\ Len(masterOut) >= 2
    /\ masterOut = hist[STDIN]
    /\ masterOut[1] # masterOut[2]

\* C3: when the loop has returned normally, standard output holds exactly
\* the bytes that became readable at the PTY master before it returned, in
\* order (and at every moment a prefix of them).
C3_PtyRelayed ==
    /\ IsPrefix(RelayedOut, hist[PTY_MASTER])
    /\ loop = "peer_closed" => RelayedOut = hist[PTY_MASTER]

\* write_buffer_to is about to return after a read that returned no byte
\* (the buffer fill_buf handed out is empty).
ZeroLengthReadDone == pc = "consume" /\ rbuf[Src] = <<>>

\* C4: after a read that returned zero bytes the loop terminates with reason
\* peer-closed; it does not go on to the next notification or the next wait.
C4_ZeroReadTerminates ==
    [][ZeroLengthReadDone => (pc' = pc \/ loop' = "peer_closed")]_vars

\* The notification being handled signals that the read side has closed.
AtReadClosed == HaveEvent /\ events[evIdx].read_closed

\* C5: at a notification that signals read-closed, whichever token it
\* carries, the loop's next step is the successful return, and neither then
\* nor afterwards is anything read or written.
C5_ReadClosedReturns ==
    [][ /\ AtReadClosed => (pc' = pc \/ (loop' = "peer_closed" /\ pc' = "restore"))
        /\ (AtReadClosed \/ loop = "peer_closed") =>
              UNCHANGED <<nread, rbuf, masterOut, stdoutBuf, stdoutDev>> ]_vars

\* C5 witness: the loop returned at a read-closed notification carrying the
\* standard-input token, leaving a later notification of the batch unhandled
\* and bytes of the PTY master unread.
C5_Witness ==
    /\ loop = "peer_closed"
    /\ InBatch
    /\ events[evIdx].token = STDIN
    /\ evIdx < Len(events)
    /\ pending[PTY_MASTER] # <<>>

\* The PTY master's peer has closed and the loop is running.
Hung == loop = "running" /\ chan[PTY_MASTER] = "hup"

\* C6 as stated: once the peer has closed under a running loop, the loop
\* ends with reason peer-closed, never with reason error.
C6_PeerCloseNeverError ==
    [][Hung => loop' # "error"]_vars

HasHangup(evs) ==
    \E i \in DOMAIN evs : evs[i] = [token |-> PTY_MASTER, read_closed |-> TRUE]

\* C6 amended: once the peer has closed under a running loop, the loop
\* terminates with no further byte arriving; the next poll that returns
\* delivers the hang-up, the batch that carries it is the last one, and the
\* reason is error only if poll or a read, write or flush failed.
C6_PeerCloseEndsLoop ==
    /\ Hung ~> Terminated
    /\ [][(Hung /\ pc = "poll" /\ pc' = "event") => HasHangup(events')]_vars
    /\ [][(Hung /\ HasHangup(events)) => pc' # "poll"]_vars
    /\ [][(Hung /\ loop' = "error") => err' \in LoopOps]_vars

\* C6 witness: the loop returned normally on the hang-up of the PTY master
\* with nothing readable on either handle.
C6_Witness ==
    /\ loop = "peer_closed"
    /\ chan[PTY_MASTER] = "hup"
    /\ chan[STDIN] = "open"
    /\ InBatch
    /\ events[evIdx].token = PTY_MASTER
    /\ pending[STDIN] = <<>>
    /\ pending[PTY_MASTER] = <<>>

\* C7: a failure of poll, of a read or of a write or flush in the loop ends
\* the loop with reason error and the process with a non-zero status, the
\* error being the one returned; after it the loop reads and writes nothing
\* and takes no further step.
C7_IoErrorIsFatal ==
    /\ [](err \in LoopOps =>
            loop = "error" /\ pc = "exit" /\ exitStatus = "error")
    /\ [][loop = "error" =>
            UNCHANGED <<pc, err, nread, rbuf, wpos,
                        masterOut, stdoutBuf, stdoutDev>>]_vars

\* C7 witness: write_all failed on the PTY master after a partial write.
C7_Witness ==
    /\ err = "write_all"
    /\ loop = "error"
    /\ InBatch
    /\ Branch = "stdin"
    /\ wpos > 0
    /\ wpos < Len(rbuf[STDIN])

\* C8: once captured, the snapshot never changes, it is the attributes the
\* terminal had at startup, and every restore is passed exactly it.
C8_SnapshotPreserved ==
    /\ [][Captured => saved' = saved]_vars
    /\ [](Captured => saved \in InitAttrs)
    /\ [](\A i \in DOMAIN restoreArgs : restoreArgs[i] = saved)

\* C8 witness: the terminal was restored from the snapshot while the working
\* copy holds the different, raw attributes.
C8_Witness ==
    /\ Len(restoreArgs) = 1
    /\ term = saved
    /\ termios = cfmakeraw(saved)
    /\ termios # saved

MainOrder == <<"capture", "allocate", "raw", "proxy", "restore">>

\* C9: the top-level steps begin in the order capture, allocate, raw, proxy,
\* restore, each only after the previous one succeeded (a failed step is the
\* last one), and no byte is read from standard input before raw mode was
\* applied.
C9_StepOrder ==
    /\ Len(mainLog) <= 2 * Len(MainOrder)
    /\ \A i \in DOMAIN mainLog :
          /\ mainLog[i][1] = MainOrder[(i + 1) \div 2]
          /\ i % 2 = 1 => mainLog[i][2] = "begin"
          /\ i % 2 = 0 => mainLog[i][2] \in {"ok", "err"}
          /\ (i % 2 = 0 /\ i < Len(mainLog)) => mainLog[i][2] = "ok"
    /\ nread[STDIN] > 0 =>
          (Len(mainLog) >= 6 /\ mainLog[6] = <<"raw", "ok">>)

\* C9 witness: a run that went through all five steps and relayed a byte
\* from standard input.
C9_Witness ==
    /\ Len(mainLog) = 10
    /\ mainLog[10] = <<"restore", "ok">>
    /\ nread[STDIN] > 0

PtyOrder == <<"openpt", "grantpt", "unlockpt", "ptsname">>

\* C10: new_pty calls open-master, grant, unlock, resolve-slave-path in this
\* order; a failed call is the last one; a PtyPair exists exactly when all
\* four succeeded, and after a failure the caller holds no master handle.
C10_AllocationOrder ==
    /\ Len(ptyLog) <= Len(PtyOrder)
    /\ \A i \in DOMAIN ptyLog :
          /\ ptyLog[i][1] = PtyOrder[i]
          /\ i < Len(ptyLog) => ptyLog[i][2] = "ok"
    /\ havePair <=> (Len(ptyLog) = 4 /\ ptyLog[4][2] = "ok")
    /\ (ptyLog # <<>> /\ ptyLog[Len(ptyLog)][2] = "err") =>
          (hfd["pty_master"] = NoFd /\ pc = "exit" /\ exitStatus = "error")

\* C10 witness: unlock failed after open and grant had succeeded.
C10_Witness ==
    /\ ptyLog = <<<<"openpt", "ok">>, <<"grantpt", "ok">>, <<"unlockpt", "err">>>>
    /\ ~havePair
    /\ pc = "exit"

\* C11: whenever the loop is about to wait (or is between notifications, or
\* has returned normally), standard output's buffer holds no relayed byte.
C11_FlushedBeforeWait ==
    (pc \in {"poll", "event"} \/ loop = "peer_closed") => stdoutBuf = <<>>

\* C11 witness: the loop waits again after relaying a byte that followed the
\* last line feed, which write_all had left in the buffer.
C11_Witness ==
    /\ pc = "poll"
    /\ loop = "running"
    /\ Len(RelayedOut) = 2
    /\ RelayedOut[2] # NL

\* C12: write_all returns only when the whole buffer handed out by the read
\* is written; consume then takes exactly the number of bytes written; the
\* loop is never between notifications or waiting with bytes left in a
\* reader's buffer, and what was written in each direction is then what was
\* read.
C12_ReadBytesAllWritten ==
    /\ [](pc \in {"flush", "consume"} => wpos = Len(rbuf[Src]))
    /\ [](pc \in {"poll", "event"} =>
            /\ \A t \in Tokens : rbuf[t] = <<>>
            /\ Len(masterOut) = nread[STDIN]
            /\ RelayedOut = Prefix(hist[PTY_MASTER], nread[PTY_MASTER]))
    /\ [][(pc = "consume" /\ pc' = "event") =>
            Len(rbuf[Src]) - Len(rbuf'[Src]) = wpos]_vars

\* C12 witness: write_all on the PTY master is between two partial writes.
C12_Witness ==
    /\ pc = "write_all"
    /\ Branch = "stdin"
    /\ wpos = 1
    /\ Len(rbuf[STDIN]) = 2
    /\ Len(masterOut) = 1

TwoEntries == {<<STDIN, StdinFd>>, <<PTY_MASTER, DupFd>>}

\* C13: while the loop runs the registration table is exactly token 0 for
\* standard input and token 1 for the duplicated PTY master; it never holds
\* anything else; every notification carries one of the two tokens and the
\* unrecognized-token abort is never reached.
C13_TwoRegistrations ==
    /\ registry \subseteq TwoEntries
    /\ loop = "running" => registry = TwoEntries
    /\ \A i \in DOMAIN events : events[i].token \in {STDIN, PTY_MASTER}
    /\ err # "unreachable"

\* C13 witness: a batch with a notification for each of the two tokens.
C13_Witness ==
    /\ loop = "running"
    /\ pc = "event"
    /\ Len(events) = 2
    /\ events[1].token # events[2].token

IsStatus(e) == e = StatusLine

StatusCount == Len(SelectSeq(stdoutDev, IsStatus))

\* C14: the status line is written at most once, only when the allocation
\* has succeeded, and it is there, first on standard output, before the
\* proxy loop starts; everything else on standard output is a byte relayed
\* from the PTY master.
C14_StatusLineOnce ==
    /\ StatusCount <= 1
    /\ StatusCount = 1 => (havePair /\ stdoutDev[1] = StatusLine)
    /\ loop # "not_started" => StatusCount = 1
    /\ (pc = "exit" /\ havePair /\ err # "println") => StatusCount = 1
    /\ IsPrefix(RelayedOut, hist[PTY_MASTER])

\* C14 witness: standard output holds the status line followed by relayed
\* bytes.
C14_Witness ==
    /\ Len(stdoutDev) = 3
    /\ stdoutDev[1] = StatusLine
    /\ pc = "exit"
    /\ exitStatus = "ok"

ProxyBegins == Len(SelectSeq(mainLog, LAMBDA e : e = <<"proxy", "begin">>))

\* C15: once the loop has terminated, it stays terminated with the same
\* reason and nothing is polled, read or written any more; the loop is
\* entered at most once.
C15_TerminatedAbsorbing ==
    /\ [][Terminated =>
            /\ loop' = loop
            /\ UNCHANGED <<events, evIdx, nread, rbuf, wpos, registry,
                           masterOut, stdoutBuf, stdoutDev>>]_vars
    /\ [](ProxyBegins <= 1)

\* C15 witness: the program has exited after a normal return of the loop,
\* with a byte still unread at standard input.
C15_Witness ==
    /\ loop = "peer_closed"
    /\ pc = "exit"
    /\ exitStatus = "ok"
    /\ pending[STDIN] # <<>>

\* C17: the loop's handle owns a descriptor different from the allocator's;
\* no descriptor is ever closed twice, and at exit every handle is released.
C17_NoDoubleRelease ==
    /\ \A f \in Fds : closes[f] <= 1
    /\ hfd["fpty_master"] # NoFd => hfd["fpty_master"] # hfd["pty_master"]
    /\ pc = "exit" => \A h \in Handles : hfd[h] = NoFd
    /\ (pc = "exit" /\ loop # "not_started" /\ err # "poll_new" /\ err # "dup") =>
          \A f \in Fds : closes[f] = 1

\* C17 witness: a registration failed and both descriptors were closed once.
C17_Witness ==
    /\ pc = "exit"
    /\ err = "register_master"
    /\ closes[MasterFd] = 1
    /\ closes[DupFd] = 1

EarlyOps == {"tcgetattr", "openpt", "grantpt", "unlockpt", "ptsname"}

\* C20: the terminal's attributes change only when the capture and the PTY
\* allocation have both succeeded; when the capture or a step of the
\* allocation failed the program has exited with an error, the attributes
\* are what they were and the proxy loop was never started.
C20_NoEarlyModeChange ==
    /\ [][term' # term => (Captured /\ havePair)]_vars
    /\ []((Captured /\ ~havePair) => term = saved)
    /\ [](err \in EarlyOps =>
            /\ pc = "exit"
            /\ exitStatus = "error"
            /\ ~havePair
            /\ loop = "not_started"
            /\ restoreArgs = <<>>
            /\ \A i \in DOMAIN mainLog : mainLog[i][1] \in {"capture", "allocate"})

\* C20 witness: grantpt failed after the capture; the terminal is as captured.
C20_Witness ==
    /\ err = "grantpt"
    /\ pc = "exit"
    /\ term = saved
    /\ ~IsRaw(term)

\* A handle has readable bytes that no pending notification covers: the
\* multiplexer reports it again only when something new arrives on it.
Stranded(t) ==
    /\ chan[t] = "open"
    /\ pending[t] # <<>>
    /\ ~edge[t]

\* C19: the loop never goes back to the wait while a registered handle has
\* readable bytes whose notification was already delivered, so that every
\* readable byte is relayed without further data having to arrive there.
C19_NoStrandedBytes ==
    (pc = "poll" /\ loop = "running") => \A t \in Registered : ~Stranded(t)

(* ------------------------- restore, in isolation ----------------------- *)

\* Every attribute set a terminal or a snapshot can hold.
AttrSets == SUBSET (UNION InitAttrs)

\* The restore of main.rs:125 taken from any snapshot and any current
\* terminal state: `saved` is the snapshot, `termios` the working copy that
\* term_set_raw made raw, `term` whatever the terminal holds by then.
RestoreInit ==
    /\ pc = "restore"
    /\ saved \in AttrSets
    /\ term \in AttrSets
    /\ termios = cfmakeraw(saved)
    /\ exitStatus = "none"
    /\ err = "none"
    /\ mainLog = <<>>
    /\ ptyLog = <<>>
    /\ restoreArgs = <<>>
    /\ havePair = TRUE
    /\ hfd = [h \in Handles |-> NoFd]
    /\ closes = [f \in Fds |-> 0]
    /\ registry = {}
    /\ loop = "peer_closed"
    /\ events = <<>>
    /\ evIdx = 0
    /\ rbuf = [t \in Tokens |-> <<>>]
    /\ wpos = 0
    /\ edge = [t \in Tokens |-> FALSE]
    /\ chan = [t \in Tokens |-> "open"]
    /\ pending = [t \in Tokens |-> <<>>]
    /\ hist = [t \in Tokens |-> <<>>]
    /\ masterRoom = MasterCap
    /\ nread = [t \in Tokens |-> 0]
    /\ masterOut = <<>>
    /\ stdoutBuf = <<>>
    /\ stdoutDev = <<>>

\* tcsetattr(stdin, TCSANOW, &saved), as in restore_ok; the log keeps the
\* terminal's attributes before and after.
restore_first ==
    /\ pc = "restore"
    /\ restoreArgs' = Append(restoreArgs, RestoreArg(saved, termios))
    /\ term' = RestoreArg(saved, termios)
    /\ mainLog' = <<<<"before", term>>, <<"restore", term'>>>>
    /\ pc' = "restore_again"
    /\ UNCHANGED <<saved, termios, exitStatus, err>>
    /\ UNCHANGED <<ptyVars, loopVars, envVars, outVars>>

\* The same call once more, immediately.
restore_second ==
    /\ pc = "restore_again"
    /\ restoreArgs' = Append(restoreArgs, RestoreArg(saved, termios))
    /\ term' = RestoreArg(saved, termios)
    /\ mainLog' = Append(mainLog, <<"restore", term'>>)
    /\ pc' = "recapture"
    /\ UNCHANGED <<saved, termios, exitStatus, err>>
    /\ UNCHANGED <<ptyVars, loopVars, envVars, outVars>>

\* tcgetattr(stdin) afterwards, as in tcgetattr_ok: it yields the terminal's
\* attributes; the log keeps what it returned.
capture_after ==
    /\ pc = "recapture"
    /\ mainLog' = Append(mainLog, <<"capture", term>>)
    /\ pc' = "compared"
    /\ UNCHANGED <<term, saved, termios, exitStatus, err, restoreArgs>>
    /\ UNCHANGED <<ptyVars, loopVars, envVars, outVars>>

RestoreNext == restore_first \/ restore_second \/ capture_after

RestoreSpec == RestoreInit /\ [][RestoreNext]_vars

BlockedInWrite ==
    /\ pc = "write_all"
    /\ Branch = "stdin"
    /\ wpos < Len(rbuf[STDIN])
    /\ MasterAccepts(Len(rbuf[STDIN]) - wpos) = 0

\* C16: the loop is never suspended inside a write to the PTY master while
\* bytes are readable at the PTY master; it is suspended only in the wait.
C16_NeverSuspendedInWrite ==
    ~(loop = "running" /\ BlockedInWrite /\ pending[PTY_MASTER] # <<>>)

====
